---- MODULE Spec2Model ----
(***************************************************************************)
(* The HTTP gateway of src/app.py as a state machine.  One step is one     *)
(* request: the before_request hook verify_token followed, when the hook   *)
(* lets the request through, by Flask's routing and the route handler.     *)
(* The document store (collections 'users' and 'transactions'), the        *)
(* identity service and the inference service are external: their answers  *)
(* and their failures are inputs of the step.                              *)
(***************************************************************************)
EXTENDS Integers, Sequences, FiniteSets, TLC

\* ------------------------------------------------------------------ bounds
\* Most documents the model lets the 'transactions' collection hold.
MaxTxns == 2
\* Most documents the model lets the 'users' collection hold.
MaxUsers == 1

\* ------------------------------------------------------------ input values
\* uid claims the identity service issues tokens for.
UIDs == {"u1", "u2"}

\* Python's None, and the marker of a body the handler never read.
None == "None"
Unread == "unread"

SPENDING_CATEGORIES ==
    <<"Food & Dining", "Shopping", "Transportation", "Health & Fitness",
      "Entertainment", "Utilities", "Travel", "Other">>

\* JSON values a client can send as 'amount': a number, true, a string.
\* The Python type json.loads gives each is kept beside the value.
Amounts ==
    { [type |-> "int", val |-> 10],
      [type |-> "int", val |-> 20],
      [type |-> "bool", val |-> TRUE],
      [type |-> "str", val |-> "12.50"] }

Categories == {SPENDING_CATEGORIES[1], SPENDING_CATEGORIES[2]}
Merchants == {"Cafe"}
\* 'date' strings: one in the format, one in another format, one impossible day.
DateTexts == {"2026-11-05", "05/11/2026", "2026-02-30"}
Emails == {"ann@example.com"}
DisplayNames == {"Ann"}

\* Authorization headers.  <<>> is a request without the header; otherwise
\* <<p, t>> is the header text p \o t.
Token == "abc"
Headers == { <<>>, <<"Basic ", Token>>, <<"bearer ", Token>>, <<"Bearer ", Token>> }

Methods == {"GET", "POST"}
Paths == {"/healthcheck", "/users", "/transactions", "/summary/spending",
          "/receipt", "/other"}

\* ---------------------------------------------------------------- calendar
\* datetime values are calendar days at 00:00:00: [y, m, d].
IsLeap(y) == (y % 4 = 0 /\ y % 100 # 0) \/ y % 400 = 0

DaysInMonth(y, m) ==
    IF m = 2 THEN (IF IsLeap(y) THEN 29 ELSE 28)
    ELSE IF m \in {4, 6, 9, 11} THEN 30 ELSE 31

RECURSIVE DaysBeforeMonth(_, _)
DaysBeforeMonth(y, m) ==
    IF m = 1 THEN 0 ELSE DaysBeforeMonth(y, m - 1) + DaysInMonth(y, m - 1)

\* date.toordinal(): 0001-01-01 is day 1.
Ordinal(dt) ==
    LET y1 == dt.y - 1
    IN  y1 * 365 + (y1 \div 4) - (y1 \div 100) + (y1 \div 400)
        + DaysBeforeMonth(dt.y, dt.m) + dt.d

\* date.weekday(): Monday is 0.
Weekday(dt) == (Ordinal(dt) + 6) % 7

\* date - timedelta(days = 1)
PrevDay(dt) ==
    IF dt.d > 1 THEN [dt EXCEPT !.d = @ - 1]
    ELSE IF dt.m > 1 THEN [y |-> dt.y, m |-> dt.m - 1, d |-> DaysInMonth(dt.y, dt.m - 1)]
    ELSE [y |-> dt.y - 1, m |-> 12, d |-> 31]

\* date - timedelta(days = n)
RECURSIVE MinusDays(_, _)
MinusDays(dt, n) == IF n = 0 THEN dt ELSE MinusDays(PrevDay(dt), n - 1)

\* date.replace(day = 1)
ReplaceDay1(dt) == [dt EXCEPT !.d = 1]

\* datetime >= datetime
DateGE(a, b) == Ordinal(a) >= Ordinal(b)

\* datetime.now() as the requests of the model see it: a Thursday, the
\* Monday after it, and the first day of the next month.
Nows == { [y |-> 2026, m |-> 11, d |-> 5],
          [y |-> 2026, m |-> 11, d |-> 9],
          [y |-> 2026, m |-> 12, d |-> 1] }

\* datetime.strptime(s, '%Y-%m-%d') on the date strings of the model:
\* the datetime, or that the call raised ValueError.
Strptime(s) ==
    CASE s = "2026-11-05" -> [ok |-> TRUE, value |-> [y |-> 2026, m |-> 11, d |-> 5]]
      [] OTHER -> [ok |-> FALSE, exc |-> "ValueError"]

DayNames == <<"Mon", "Tue", "Wed", "Thu", "Fri", "Sat", "Sun">>
MonthNames == <<"Jan", "Feb", "Mar", "Apr", "May", "Jun",
                "Jul", "Aug", "Sep", "Oct", "Nov", "Dec">>
Pad2(n) == IF n < 10 THEN "0" \o ToString(n) ELSE ToString(n)

\* jsonify of a datetime: Flask's JSON provider writes the RFC 822 date.
HttpDate(dt) ==
    DayNames[Weekday(dt) + 1] \o ", " \o Pad2(dt.d) \o " " \o MonthNames[dt.m]
        \o " " \o ToString(dt.y) \o " 00:00:00 GMT"

\* ------------------------------------------------------------ request bodies
RequiredFields == <<"amount", "category", "date", "merchantName">>

Restrict(f, S) == [k \in (DOMAIN f \cap S) |-> f[k]]

\* Bodies of POST /transactions that carry the four fields; some also carry
\* a userId of their own.
FullTxnBodies ==
    { [amount |-> a, category |-> c, date |-> d, merchantName |-> m] :
        a \in Amounts, c \in Categories, d \in DateTexts, m \in Merchants }
    \cup
    { [amount |-> a, category |-> c, date |-> d, merchantName |-> m, userId |-> "u2"] :
        a \in Amounts, c \in Categories, d \in {"2026-11-05"}, m \in Merchants }

\* Bodies that lack at least one of the four fields (down to the empty object).
PartialTxnBodies ==
    { Restrict(b, S) :
        b \in { [amount |-> [type |-> "int", val |-> 10], category |-> "Shopping",
                 date |-> d, merchantName |-> "Cafe"] : d \in {"2026-11-05", "05/11/2026"} },
        S \in (SUBSET {"amount", "category", "date", "merchantName"})
                \ {{"amount", "category", "date", "merchantName"}} }

TxnBodies == FullTxnBodies \cup PartialTxnBodies

UserBodies ==
    { Restrict([email |-> e, displayName |-> n], S) :
        e \in Emails, n \in DisplayNames, S \in SUBSET {"email", "displayName"} }

\* image_data strings: wrong padding; characters outside the alphabet only;
\* the base64 of the text "hello"; the base64 of a PNG file.
ImageTexts == {"abc", "%%%%", "aGVsbG8=", "iVBORw0KGgo..."}
ReceiptBodies ==
    { [image_data |-> t] : t \in ImageTexts } \cup { Restrict([image_data |-> "abc"], {}) }

\* A request without a JSON body, and the JSON document null.
NoBody == [kind |-> "nobody"]
NullBody == [kind |-> "null"]
Dict(b) == [kind |-> "dict", value |-> b]
Wire(bodies) == {NoBody, NullBody} \cup { Dict(b) : b \in bodies }

\* request.get_json(): what `data` is bound to, or that the call raised.
\* null parses to None.  Without a JSON body the call raises (415 or 400,
\* werkzeug HTTPExceptions) or, in Flask releases before 2.1, returns None.
GetJson(body) ==
    CASE body.kind = "nobody" -> { [kind |-> "raise"], [kind |-> "none"] }
      [] body.kind = "null"   -> { [kind |-> "none"] }
      [] OTHER                -> { body }

\* base64.b64decode(s): the bytes, or "binascii.Error".  Characters outside
\* the alphabet are discarded (validate is False).
B64Decode(s) ==
    CASE s = "abc"            -> "binascii.Error"
      [] s = "%%%%"           -> "b''"
      [] s = "aGVsbG8="       -> "b'hello'"
      [] OTHER                -> "b'\\x89PNG...'"

\* A variant that takes any bytes for an image.
ImageOpenUnchecked(b) == TRUE

\* Image.open(io.BytesIO(b)): TRUE when PIL identifies an image.
ImageOpen(b) == b = "b'\\x89PNG...'"

\* request.args.get('period', 'monthly').lower()
PeriodArgs == {None, "daily", "weekly", "MONTHLY", "yearly"}
Lower(s) == IF s = "MONTHLY" THEN "monthly" ELSE s
PeriodOf(arg) == Lower(IF arg = None THEN "monthly" ELSE arg)

\* --------------------------------------------------------------------- state
VARIABLES
    db,            \* the Firestore client is initialised (FALSE: db is None)
    model,         \* the Gemini client is initialised (FALSE: model is None)
    users,         \* collection 'users', in creation order
    transactions,  \* collection 'transactions', in creation order
    req,           \* the request being served: method, path, header, body
    g,             \* flask.g of that request: <<>> or [user |-> [uid |-> u]]
    inp,           \* what the handler read: get_json(), the period, now()
    resp,          \* the response
    calls,         \* store and generate_content calls made for req, and what raised
    accepted,      \* history: per transaction document, who posted which body
    acceptedUsers  \* history: per user document, the body posted

vars == <<db, model, users, transactions, req, g, inp, resp, calls,
          accepted, acceptedUsers>>

store == <<users, transactions, accepted, acceptedUsers>>

NoInput == [json |-> [kind |-> "unread"], period |-> Unread, now |-> Unread]
NoCalls == [store |-> 0, infer |-> 0, raised |-> "none"]
Raised(exc) == [store |-> 0, infer |-> 0, raised |-> exc]
StoreCall(exc) == [store |-> 1, infer |-> 0, raised |-> exc]

\* No request is being served: the request context is popped.
NoRequest == [method |-> None, path |-> None, header |-> <<>>, body |-> NoBody]
Idle == req = NoRequest

Json(status, value) == [status |-> status, json |-> value]
Page(status, text) == [status |-> status, text |-> text]

\* Module initialisation: both clients, or neither (the except branch sets
\* db and model to None together).  No request has been served yet.
Init ==
    /\ \E ok \in BOOLEAN : db = ok /\ model = ok
    /\ users = <<>>
    /\ transactions = <<>>
    /\ accepted = <<>>
    /\ acceptedUsers = <<>>
    /\ req = NoRequest
    /\ g = <<>>
    /\ inp = NoInput
    /\ resp = [status |-> 0]
    /\ calls = NoCalls

\* -------------------------------------------------------------- verify_token
\* auth.verify_id_token(id_token): the decoded claims, or the exception.
\* InvalidIdTokenError covers expired and revoked tokens; ValueError an empty
\* or non-string token; CertificateFetchError is what is raised when the
\* public keys of the identity service cannot be fetched.
VerifyOutcomes ==
    { [exc |-> "none", uid |-> u] : u \in UIDs }
    \cup { [exc |-> e, uid |-> None] :
             e \in {"InvalidIdTokenError", "ValueError", "CertificateFetchError"} }

\* A variant that compares the scheme without regard to case.
StartsWithBearerAnyCase(h) == h # <<>> /\ h[1] \in {"Bearer ", "bearer "}

StartsWithBearer(h) == h # <<>> /\ h[1] = "Bearer "

\* The header of a request and what the identity service answers when asked
\* (it is asked only for a Bearer header).
Auths ==
    { [header |-> h, verify |-> v] : h \in {<<"Bearer ", Token>>}, v \in VerifyOutcomes }
    \cup { [header |-> h, verify |-> [exc |-> "ValueError", uid |-> None]] :
             h \in Headers \ {<<"Bearer ", Token>>} }

\* The bodies the model sends with a request: every body of the route when
\* the token verifies, no body or one sample body when it does not.
BodiesWith(a, bodies, sample) ==
    IF StartsWithBearer(a.header) /\ a.verify.exc = "none"
    THEN Wire(bodies)
    ELSE {NoBody, Dict(sample)}

\* The before_request hook.  pass: the request goes on to routing with g;
\* otherwise resp is the answer (an exception the hook does not catch gives
\* Flask's 500 page).
verify_token(r, v) ==
    IF r.path = "/healthcheck"
    THEN [pass |-> TRUE, g |-> <<>>]
    ELSE IF ~ StartsWithBearer(r.header)
    THEN [pass |-> FALSE, raised |-> "none",
          resp |-> Json(401, [error |-> "Authorization header with Bearer token is required"])]
    ELSE IF v.exc = "none"
    THEN [pass |-> TRUE, g |-> [user |-> [uid |-> v.uid]]]
    ELSE IF v.exc \in {"InvalidIdTokenError", "ValueError"}
    THEN [pass |-> FALSE, raised |-> v.exc,
          resp |-> Json(401, [error |-> "Invalid or expired token: " \o v.exc])]
    ELSE [pass |-> FALSE, raised |-> v.exc,
          resp |-> Page(500, "Internal Server Error")]

\* The step's effect when the hook answers the request itself.
Refuse(r, pre) ==
    /\ req' = r
    /\ g' = <<>>
    /\ inp' = NoInput
    /\ resp' = pre.resp
    /\ calls' = Raised(pre.raised)
    /\ UNCHANGED <<db, model, store>>

\* The step's effect when a handler answers without changing the store.
Answer(r, gg, i, rs, c) ==
    /\ req' = r
    /\ g' = gg
    /\ inp' = i
    /\ resp' = rs
    /\ calls' = c
    /\ UNCHANGED <<db, model, store>>

\* ----------------------------------------------------------------- the store
\* The orders a stream() can deliver documents in: document ids are random,
\* so the order is not the creation order.
Streams(docs) ==
    LET n == Len(docs)
        bij == { p \in [1..n -> 1..n] : \A i, j \in 1..n : p[i] = p[j] => i = j }
    IN  { [i \in 1..n |-> docs[p[i]]] : p \in bij }

\* A variant that leaves the userId filter out of the query.
OwnedByAnyone(doc, user_id) == TRUE

\* where('userId', '==', user_id)
OwnedBy(doc, user_id) == doc.userId = user_id

\* doc.to_dict() with doc_data['id'] = doc.id, as jsonify writes it: a
\* datetime field becomes its RFC 822 text.
UserJson(doc) == doc
TxnJson(doc) == [doc EXCEPT !.date = HttpDate(doc.date)]

\* documents = []; for doc in docs_stream: documents.append(doc_data)
UserDocuments(docs) == [i \in 1..Len(docs) |-> UserJson(docs[i])]
TxnDocuments(docs) == [i \in 1..Len(docs) |-> TxnJson(docs[i])]

\* SERVER_TIMESTAMP as the store resolves it on a write to a collection.
ServerTimestamp(collection) == Len(collection) + 1

\* A variant that answers 200 with the array even when it is empty.
ListResponseAlways200(documents, message) == Json(200, documents)

\* The answer of a listing handler: 404 for no documents, else the array.
ListResponse(documents, message) ==
    IF documents = <<>> THEN Json(404, [message |-> message])
    ELSE Json(200, documents)

\* ------------------------------------------------------------------ handlers
\* GET /healthcheck
Healthcheck ==
    /\ Idle
    /\ \E a \in Auths :
        LET r == [method |-> "GET", path |-> "/healthcheck", header |-> a.header,
                  body |-> NoBody]
            pre == verify_token(r, a.verify)
        IN  Answer(r, pre.g, NoInput,
                IF db /\ model
                THEN Page(200, "Flask server is running. Firestore and Gemini AI integration are active.")
                ELSE Json(500, [error |-> "Firestore or Gemini AI integration is not active."]),
                NoCalls)

\* GET /users
GetUsers ==
    /\ Idle
    /\ \E a \in Auths :
        LET r == [method |-> "GET", path |-> "/users", header |-> a.header,
                  body |-> NoBody]
            pre == verify_token(r, a.verify)
        IN  IF ~ pre.pass THEN Refuse(r, pre)
            ELSE IF ~ db
            THEN Answer(r, pre.g, NoInput,
                        Json(500, [error |-> "Firestore is not initialized."]), NoCalls)
            ELSE \E storeOk \in BOOLEAN :
                IF ~ storeOk
                THEN Answer(r, pre.g, NoInput,
                        Json(500, [error |-> "An error occurred: store"]),
                        StoreCall("store"))
                ELSE \E documents \in Streams(UserDocuments(users)) :
                        Answer(r, pre.g, NoInput,
                            ListResponse(documents,
                                "No documents found in collection 'users' or collection does not exist."),
                            StoreCall("none"))

\* A variant that rejects a body only when both fields are missing.
MissingUserFieldsBoth(data) ==
    \/ data.kind = "none"
    \/ DOMAIN data.value = {}
    \/ ("email" \notin DOMAIN data.value /\ "displayName" \notin DOMAIN data.value)

\* The test `not data or 'email' not in data or 'displayName' not in data`.
MissingUserFields(data) ==
    \/ data.kind = "none"
    \/ DOMAIN data.value = {}
    \/ "email" \notin DOMAIN data.value
    \/ "displayName" \notin DOMAIN data.value

\* A variant that stores the two fields under each other's name.
UserDataSwapped(data) ==
    [email |-> data.displayName,
     displayName |-> data.email,
     createdAt |-> ServerTimestamp(users)]

\* The document create_user writes.
UserData(data) ==
    [email |-> data.email,
     displayName |-> data.displayName,
     createdAt |-> ServerTimestamp(users)]

\* POST /users
CreateUser ==
    /\ Idle
    /\ \E a \in Auths :
       \E body \in BodiesWith(a, UserBodies,
                    [email |-> "ann@example.com", displayName |-> "Ann"]) :
        LET r == [method |-> "POST", path |-> "/users", header |-> a.header,
                  body |-> body]
            pre == verify_token(r, a.verify)
        IN  IF ~ pre.pass THEN Refuse(r, pre)
            ELSE IF ~ db
            THEN Answer(r, pre.g, NoInput,
                        Json(500, [error |-> "Firestore is not initialized."]), NoCalls)
            ELSE \E data \in GetJson(body), storeOk \in BOOLEAN :
                LET i == [NoInput EXCEPT !.json = data]
                IN  IF data.kind = "raise"
                    THEN Answer(r, pre.g, i,
                            Json(500, [error |-> "An error occurred while creating user: get_json"]),
                            Raised("get_json"))
                    ELSE IF MissingUserFields(data)
                    THEN Answer(r, pre.g, i,
                            Json(400, [error |-> "Missing required fields: email and displayName"]),
                            NoCalls)
                    ELSE IF ~ ({"email", "displayName"} \subseteq DOMAIN data.value)
                    THEN Answer(r, pre.g, i,
                            Json(500, [error |-> "An error occurred while creating user: KeyError"]),
                            Raised("KeyError"))
                    ELSE IF ~ storeOk
                    THEN Answer(r, pre.g, i,
                            Json(500, [error |-> "An error occurred while creating user: store"]),
                            StoreCall("store"))
                    ELSE LET id == "user-" \o ToString(Len(users) + 1)
                             user_data == UserData(data.value)
                         IN  /\ Len(users) < MaxUsers
                             /\ users' = Append(users,
                                    [id |-> id, email |-> user_data.email,
                                     displayName |-> user_data.displayName,
                                     createdAt |-> user_data.createdAt])
                             /\ acceptedUsers' = Append(acceptedUsers, data.value)
                             /\ req' = r
                             /\ g' = pre.g
                             /\ inp' = i
                             /\ resp' = Json(201, [message |-> "User created successfully", id |-> id])
                             /\ calls' = StoreCall("none")
                             /\ UNCHANGED <<db, model, transactions, accepted>>

\* GET /transactions
GetTransactions ==
    /\ Idle
    /\ \E a \in Auths :
        LET r == [method |-> "GET", path |-> "/transactions", header |-> a.header,
                  body |-> NoBody]
            pre == verify_token(r, a.verify)
        IN  IF ~ pre.pass THEN Refuse(r, pre)
            ELSE IF ~ db
            THEN Answer(r, pre.g, NoInput,
                        Json(500, [error |-> "Firestore is not initialized."]), NoCalls)
            ELSE \E storeOk \in BOOLEAN :
                 LET user_id == pre.g.user.uid
                     Mine(doc) == OwnedBy(doc, user_id)
                 IN  IF ~ storeOk
                     THEN Answer(r, pre.g, NoInput,
                                Json(500, [error |-> "An error occurred: store"]),
                                StoreCall("store"))
                     ELSE \E documents \in
                                Streams(TxnDocuments(SelectSeq(transactions, Mine))) :
                            Answer(r, pre.g, NoInput,
                                ListResponse(documents,
                                    "No transactions found for user " \o user_id \o "."),
                                StoreCall("none"))

\* The first of the required fields that data lacks, or None.
RECURSIVE FirstMissingFrom(_, _)
FirstMissingFrom(data, k) ==
    IF k > Len(RequiredFields) THEN None
    ELSE IF RequiredFields[k] \notin DOMAIN data THEN RequiredFields[k]
    ELSE FirstMissingFrom(data, k + 1)

FirstMissing(data) == FirstMissingFrom(data, 1)

\* A variant that takes userId from the body when the body has one.
TransactionDataFromBody(data, gg, transaction_date) ==
    [userId |-> IF "userId" \in DOMAIN data THEN data.userId ELSE gg.user.uid,
     merchantName |-> data.merchantName,
     amount |-> data.amount,
     category |-> data.category,
     date |-> transaction_date,
     createdAt |-> ServerTimestamp(transactions)]

\* The document create_transaction writes for the body data of the caller in gg.
TransactionData(data, gg, transaction_date) ==
    [userId |-> gg.user.uid,
     merchantName |-> data.merchantName,
     amount |-> data.amount,
     category |-> data.category,
     date |-> transaction_date,
     createdAt |-> ServerTimestamp(transactions)]

\* POST /transactions
CreateTransaction ==
    /\ Idle
    /\ \E a \in Auths :
       \E body \in BodiesWith(a, TxnBodies,
                    [amount |-> [type |-> "int", val |-> 10], category |-> "Shopping",
                     date |-> "2026-11-05", merchantName |-> "Cafe"]) :
        LET r == [method |-> "POST", path |-> "/transactions", header |-> a.header,
                  body |-> body]
            pre == verify_token(r, a.verify)
        IN  IF ~ pre.pass THEN Refuse(r, pre)
            ELSE IF ~ db
            THEN Answer(r, pre.g, NoInput,
                        Json(500, [error |-> "Firestore is not initialized."]), NoCalls)
            ELSE \E data \in GetJson(body), storeOk \in BOOLEAN :
                LET i == [NoInput EXCEPT !.json = data]
                IN  IF data.kind = "raise"
                    THEN Answer(r, pre.g, i,
                            Json(500, [error |-> "An error occurred while creating transaction: get_json"]),
                            Raised("get_json"))
                    ELSE IF data.kind = "none"
                    THEN Answer(r, pre.g, i,
                            Json(500, [error |-> "An error occurred while creating transaction: argument of type 'NoneType' is not iterable"]),
                            Raised("TypeError"))
                    ELSE IF FirstMissing(data.value) # None
                    THEN Answer(r, pre.g, i,
                            Json(400, [error |-> "Missing required field: " \o FirstMissing(data.value)]),
                            NoCalls)
                    ELSE IF ~ Strptime(data.value.date).ok
                    THEN Answer(r, pre.g, i,
                            Json(400, [error |-> "Invalid date format. Please use YYYY-MM-DD."]),
                            NoCalls)
                    ELSE IF ~ storeOk
                    THEN Answer(r, pre.g, i,
                            Json(500, [error |-> "An error occurred while creating transaction: store"]),
                            StoreCall("store"))
                    ELSE LET id == "txn-" \o ToString(Len(transactions) + 1)
                             td == TransactionData(data.value, pre.g,
                                                   Strptime(data.value.date).value)
                         IN  /\ Len(transactions) < MaxTxns
                             /\ transactions' = Append(transactions,
                                    [id |-> id, userId |-> td.userId,
                                     merchantName |-> td.merchantName,
                                     amount |-> td.amount, category |-> td.category,
                                     date |-> td.date, createdAt |-> td.createdAt])
                             /\ accepted' = Append(accepted,
                                    [caller |-> a.verify.uid,
                                     data |-> Restrict(data.value,
                                        {"amount", "category", "date", "merchantName"})])
                             /\ req' = r
                             /\ g' = pre.g
                             /\ inp' = i
                             /\ resp' = Json(201, [message |-> "Transaction created successfully", id |-> id])
                             /\ calls' = StoreCall("none")
                             /\ UNCHANGED <<db, model, users, acceptedUsers>>

\* The start of the period that contains now.
StartDate(period, now) ==
    IF period = "daily" THEN now
    ELSE IF period = "weekly" THEN MinusDays(now, Weekday(now))
    ELSE ReplaceDay1(now)

\* isinstance(amount, (int, float)): bool is a subclass of int.
IsIntOrFloat(amount) == amount.type \in {"int", "float", "bool"}

\* The number an amount adds as: True adds as 1.
NumberOf(amount) ==
    IF amount.type = "bool" THEN (IF amount.val THEN 1 ELSE 0) ELSE amount.val

\* spending_by_category (a dict: its keys in insertion order) and total_spent
\* after the loop over the streamed documents.
RECURSIVE Accumulate(_, _)
Accumulate(docs, acc) ==
    IF docs = <<>> THEN acc
    ELSE LET transaction == Head(docs)
             category == transaction.category
             amount == transaction.amount
             at == { k \in 1..Len(acc.by) : acc.by[k].category = category }
         IN  IF IsIntOrFloat(amount)
             THEN Accumulate(Tail(docs),
                    [by |-> IF at = {}
                            THEN Append(acc.by, [category |-> category,
                                                 total_amount |-> 0 + NumberOf(amount)])
                            ELSE [acc.by EXCEPT ![CHOOSE k \in at : TRUE].total_amount
                                                    = @ + NumberOf(amount)],
                     total |-> acc.total + NumberOf(amount)])
             ELSE Accumulate(Tail(docs), acc)

\* sorted(..., key = total_amount, reverse = True): stable, so entries with
\* equal totals keep their order.
RECURSIVE SortedSummary(_)
SortedSummary(s) ==
    IF s = <<>> THEN <<>>
    ELSE LET front == SortedSummary(SubSeq(s, 1, Len(s) - 1))
             x == s[Len(s)]
             k == Cardinality({ j \in 1..Len(front) :
                                    front[j].total_amount >= x.total_amount })
         IN  SubSeq(front, 1, k) \o <<x>> \o SubSeq(front, k + 1, Len(front))

\* GET /summary/spending
GetSpendingSummary ==
    /\ Idle
    /\ \E a \in Auths :
        LET r == [method |-> "GET", path |-> "/summary/spending", header |-> a.header,
                  body |-> NoBody]
            pre == verify_token(r, a.verify)
        IN  IF ~ pre.pass THEN Refuse(r, pre)
            ELSE IF ~ db
            THEN Answer(r, pre.g, NoInput,
                        Json(500, [error |-> "Firestore is not initialized."]), NoCalls)
            ELSE \E arg \in PeriodArgs :
                 LET user_id == pre.g.user.uid
                     period == PeriodOf(arg)
                 IN  IF period \notin {"daily", "weekly", "monthly"}
                     THEN Answer(r, pre.g, [NoInput EXCEPT !.period = arg],
                            Json(400, [error |-> "Invalid period. Supported values are 'daily', 'weekly', 'monthly'."]),
                            NoCalls)
                     ELSE \E now \in Nows, storeOk \in BOOLEAN :
                          LET i == [NoInput EXCEPT !.period = arg, !.now = now]
                              start_date == StartDate(period, now)
                              InPeriod(doc) ==
                                  OwnedBy(doc, user_id) /\ DateGE(doc.date, start_date)
                          IN  IF ~ storeOk
                              THEN Answer(r, pre.g, i,
                                    Json(500, [error |-> "An error occurred: store"]),
                                    StoreCall("store"))
                              ELSE \E docs \in Streams(SelectSeq(transactions, InPeriod)) :
                                LET acc == Accumulate(docs, [by |-> <<>>, total |-> 0])
                                    result == [period |-> period,
                                               totalSpent |-> acc.total,
                                               topCategories |-> SortedSummary(acc.by)]
                                IN  IF acc.by = <<>>
                                    THEN Answer(r, pre.g, i,
                                            Json(404, [message |-> "No transactions found for user " \o user_id \o " in the '" \o period \o "' period."]),
                                            StoreCall("none"))
                                    ELSE IF ~ model
                                    THEN Answer(r, pre.g, i,
                                            Json(500, [error |-> "An error occurred: 'NoneType' object has no attribute 'models'"]),
                                            StoreCall("AttributeError"))
                                    ELSE \E inferOk \in BOOLEAN :
                                         IF ~ inferOk
                                         THEN Answer(r, pre.g, i,
                                                Json(500, [error |-> "An error occurred: inference"]),
                                                [store |-> 1, infer |-> 1, raised |-> "inference"])
                                         ELSE Answer(r, pre.g, i,
                                                Json(200, [period |-> result.period,
                                                           totalSpent |-> result.totalSpent,
                                                           topCategories |-> result.topCategories,
                                                           insights |-> "response.text"]),
                                                [store |-> 1, infer |-> 1, raised |-> "none"])

\* POST /receipt
ReceiptScan ==
    /\ Idle
    /\ \E a \in Auths :
       \E body \in BodiesWith(a, ReceiptBodies, [image_data |-> "iVBORw0KGgo..."]) :
        LET r == [method |-> "POST", path |-> "/receipt", header |-> a.header,
                  body |-> body]
            pre == verify_token(r, a.verify)
        IN  IF ~ pre.pass THEN Refuse(r, pre)
            ELSE \E data \in GetJson(body) :
                LET i == [NoInput EXCEPT !.json = data]
                IN  IF data.kind = "raise"
                    THEN Answer(r, pre.g, i,
                            Json(500, [error |-> "An error occurred while generating content: get_json"]),
                            Raised("get_json"))
                    ELSE IF data.kind = "none"
                    THEN Answer(r, pre.g, i,
                            Json(500, [error |-> "An error occurred while generating content: 'NoneType' object is not subscriptable"]),
                            Raised("TypeError"))
                    ELSE IF "image_data" \notin DOMAIN data.value
                    THEN Answer(r, pre.g, i,
                            Json(500, [error |-> "An error occurred while generating content: 'image_data'"]),
                            Raised("KeyError"))
                    ELSE IF B64Decode(data.value.image_data) = "binascii.Error"
                    THEN Answer(r, pre.g, i,
                            Json(400, [error |-> "Failed to process image data: binascii.Error"]),
                            NoCalls)
                    ELSE IF ~ ImageOpen(B64Decode(data.value.image_data))
                    THEN Answer(r, pre.g, i,
                            Json(400, [error |-> "Failed to process image data: cannot identify image file"]),
                            NoCalls)
                    ELSE IF ~ model
                    THEN Answer(r, pre.g, i,
                            Json(500, [error |-> "An error occurred while generating content: 'NoneType' object has no attribute 'models'"]),
                            Raised("AttributeError"))
                    ELSE \E inferOk \in BOOLEAN :
                         IF ~ inferOk
                         THEN Answer(r, pre.g, i,
                                Json(500, [error |-> "An error occurred while generating content: inference"]),
                                [store |-> 0, infer |-> 1, raised |-> "inference"])
                         ELSE Answer(r, pre.g, i,
                                Json(200, [response |-> "response.text"]),
                                [store |-> 0, infer |-> 1, raised |-> "none"])

\* The rules @app.route registers.
Routes ==
    { <<"GET", "/healthcheck">>, <<"GET", "/users">>, <<"POST", "/users">>,
      <<"GET", "/transactions">>, <<"GET", "/summary/spending">>,
      <<"POST", "/transactions">>, <<"POST", "/receipt">> }

\* A request no rule matches: the hook runs first, then Flask answers 404
\* (no rule for the path) or 405 (no rule for the method).
NotRouted ==
    /\ Idle
    /\ \E m \in Methods, p \in Paths, a \in Auths :
        LET r == [method |-> m, path |-> p, header |-> a.header, body |-> NoBody]
            pre == verify_token(r, a.verify)
        IN  /\ <<m, p>> \notin Routes
            /\ IF ~ pre.pass THEN Refuse(r, pre)
               ELSE Answer(r, pre.g, NoInput,
                        IF \E m2 \in Methods : <<m2, p>> \in Routes
                        THEN Page(405, "Method Not Allowed")
                        ELSE Page(404, "Not Found"),
                        NoCalls)

\* The response is sent and Flask pops the request context: request and g
\* live for one request only.
Teardown ==
    /\ ~ Idle
    /\ req' = NoRequest
    /\ g' = <<>>
    /\ inp' = NoInput
    /\ resp' = [status |-> 0]
    /\ calls' = NoCalls
    /\ UNCHANGED <<db, model, store>>

Next ==
    \/ Healthcheck
    \/ GetUsers
    \/ CreateUser
    \/ GetTransactions
    \/ GetSpendingSummary
    \/ CreateTransaction
    \/ ReceiptScan
    \/ NotRouted
    \/ Teardown

Spec == Init /\ [][Next]_vars

\* ==================================================================== claims
Served(m, p) == ~ Idle /\ req.method = m /\ req.path = p

\* The hook verified the token of the request being served.
Passed == "user" \in DOMAIN g

NoBearer(h) == h = <<>> \/ h[1] # "Bearer "

\* The sum of f[k] over the k in K.
RECURSIVE SumOver(_, _)
SumOver(K, f) ==
    IF K = {} THEN 0
    ELSE LET k == CHOOSE x \in K : TRUE IN f[k] + SumOver(K \ {k}, f)

\* The body carries the four fields and a date in the format YYYY-MM-DD.
CompleteTxnBody(b) ==
    /\ b.kind = "dict"
    /\ {"amount", "category", "date", "merchantName"} \subseteq DOMAIN b.value
    /\ b.value.date = "2026-11-05"

\* The body is absent, null, or lacks one of the four fields.
LacksTxnField(b) ==
    \/ b.kind # "dict"
    \/ ~ ({"amount", "category", "date", "merchantName"} \subseteq DOMAIN b.value)

\* The body is absent, null, or lacks email or displayName.
LacksUserField(b) ==
    \/ b.kind # "dict"
    \/ ~ ({"email", "displayName"} \subseteq DOMAIN b.value)

\* ------------------------------------------------------------------------ C1
\* C1: a request to any path but /healthcheck whose Authorization header is
\* missing or does not start with 'Bearer ' is answered 401 with the body
\* {"error": "Authorization header with Bearer token is required"}, whatever
\* its method, path and body and whether or not the clients initialised; no
\* handler runs for it.
C1_NoBearerIs401 ==
    (~ Idle /\ req.path # "/healthcheck" /\ NoBearer(req.header))
        => /\ resp.status = 401
           /\ resp = Json(401, [error |-> "Authorization header with Bearer token is required"])
           /\ calls = NoCalls
           /\ inp = NoInput

\* A POST /transactions with a complete body and a Basic header, served by a
\* process whose clients did not initialise, was answered 401.
C1_Witness ==
    /\ Served("POST", "/transactions")
    /\ ~ db
    /\ req.header = <<"Basic ", Token>>
    /\ req.body.kind = "dict"
    /\ resp.status = 401

\* ------------------------------------------------------------------------ C3
\* The caller who posted the transaction document with this id.
CreatorOf(id) ==
    accepted[CHOOSE k \in 1..Len(transactions) : transactions[k].id = id].caller

\* The documents the caller being served posted that are dated on or after
\* the start of the period the summary request asked for.
OwnInPeriod ==
    { k \in 1..Len(transactions) :
        /\ accepted[k].caller = g.user.uid
        /\ DateGE(transactions[k].date, StartDate(PeriodOf(inp.period), inp.now)) }

\* C3: every record GET /transactions returns to a caller has that caller's
\* verified uid as userId and was posted by that caller, and the total of the
\* spending summary is the total over documents that caller posted.
C3_OwnRecordsOnly ==
    /\ (Served("GET", "/transactions") /\ resp.status = 200)
        => \A i \in 1..Len(resp.json) :
              /\ resp.json[i].userId = g.user.uid
              /\ CreatorOf(resp.json[i].id) = g.user.uid
    /\ (Served("GET", "/summary/spending") /\ resp.status = 200)
        => resp.json.totalSpent =
              SumOver({ k \in OwnInPeriod : IsIntOrFloat(transactions[k].amount) },
                      [k \in 1..Len(transactions) |-> NumberOf(transactions[k].amount)])

\* A caller was shown fewer records than the collection holds: another
\* caller's documents were there and were left out.
C3_Witness ==
    /\ Served("GET", "/transactions")
    /\ resp.status = 200
    /\ Len(resp.json) < Len(transactions)

\* ------------------------------------------------------------------------ C6
\* image_data strings that are not valid base64 or do not decode to an image.
BadImageTexts == {"abc", "%%%%", "aGVsbG8="}

Matching ==
    IF req.path = "/users" THEN Len(users)
    ELSE Cardinality({ k \in 1..Len(transactions) : transactions[k].userId = g.user.uid })

\* C8: a listing request (GET /users, GET /transactions) for which the store
\* returns no document is answered 404 with a message, and a 200 from a
\* listing endpoint carries a non-empty array.
C8_EmptyListingIs404 ==
    (~ Idle /\ req.method = "GET" /\ req.path \in {"/users", "/transactions"})
        => /\ resp.status = 200 => Len(resp.json) > 0
           /\ (Passed /\ calls.store = 1 /\ calls.raised = "none" /\ Matching = 0)
                => (resp.status = 404 /\ "message" \in DOMAIN resp.json)

\* A caller with no transactions was answered 404 while the collection held
\* documents of another caller.
C8_Witness ==
    /\ Served("GET", "/transactions")
    /\ resp.status = 404
    /\ Len(transactions) > 0

\* ------------------------------------------------------------------------ C9
\* C9: when a request to a path other than /healthcheck carries a Bearer
\* header and the verification does not succeed (the token is invalid or
\* expired, or the identity service fails), the answer is 401 with a JSON
\* error body and no handler runs.
C9_VerificationFailureIs401 ==
    ( /\ ~ Idle
      /\ req.path # "/healthcheck"
      /\ ~ NoBearer(req.header)
      /\ ~ Passed )
        => /\ resp.status = 401
           /\ "json" \in DOMAIN resp
           /\ "error" \in DOMAIN resp.json
           /\ calls.store = 0
           /\ calls.infer = 0

\* ------------------------------------------------------------------------ C2
\* The list answered to the caller has a record with the merchantName,
\* amount and category of the k-th accepted body and the caller's uid.
ListedAsPosted(k) ==
    \E i \in 1..Len(resp.json) :
        /\ resp.json[i].merchantName = accepted[k].data.merchantName
        /\ resp.json[i].amount = accepted[k].data.amount
        /\ resp.json[i].category = accepted[k].data.category
        /\ resp.json[i].userId = g.user.uid

\* C2 as stated: every authenticated POST /transactions with the four fields
\* and a parseable date is answered 201, and every later GET /transactions
\* by the same caller is answered 200 with a matching record.
C2_CompleteBodyIs201 ==
    /\ (Served("POST", "/transactions") /\ Passed /\ CompleteTxnBody(req.body))
        => resp.status = 201
    /\ (Served("GET", "/transactions") /\ Passed)
        => \A k \in 1..Len(accepted) :
              accepted[k].caller = g.user.uid => (resp.status = 200 /\ ListedAsPosted(k))

\* One request being served: the step from no request to its response.
Serves(m, p) == Idle /\ req'.method = m /\ req'.path = p

\* The create step of C2 when the store client is initialised and the store
\* raises no error: 201, one document appended, its userId the verified uid.
C2_CreateStep ==
    ( /\ Serves("POST", "/transactions")
      /\ "user" \in DOMAIN g'
      /\ CompleteTxnBody(req'.body)
      /\ db
      /\ calls'.raised = "none" )
        => /\ resp'.status = 201
           /\ Len(transactions') = Len(transactions) + 1
           /\ SubSeq(transactions', 1, Len(transactions)) = transactions
           /\ transactions'[Len(transactions')].userId = g'.user.uid
           /\ transactions'[Len(transactions')].merchantName = req'.body.value.merchantName
           /\ transactions'[Len(transactions')].amount = req'.body.value.amount
           /\ transactions'[Len(transactions')].category = req'.body.value.category
           /\ users' = users

\* The list part of C2 when the store client is initialised and the store
\* raises no error.
C2_ListState ==
    (Served("GET", "/transactions") /\ Passed /\ db /\ calls.raised = "none")
        => \A k \in 1..Len(accepted) :
              accepted[k].caller = g.user.uid => (resp.status = 200 /\ ListedAsPosted(k))

\* C2 amended: while the store client is initialised and the store raises no
\* error, an authenticated POST /transactions with the four fields and a
\* parseable date is answered 201 and appends exactly one document whose
\* userId is the verified uid, whatever userId the body carries; every later
\* GET /transactions by that caller that the store answers is a 200 whose
\* list has a record with the posted merchantName, amount and category.
C2_CompleteBodyIs201WhenStoreWorks ==
    [][C2_CreateStep]_vars /\ []C2_ListState

\* A body that carried another caller's userId was accepted and the document
\* written has the verified uid.
C2_Witness ==
    /\ Served("POST", "/transactions")
    /\ resp.status = 201
    /\ "userId" \in DOMAIN req.body.value
    /\ req.body.value.userId # g.user.uid
    /\ transactions[Len(transactions)].userId = g.user.uid

C4_Step ==
    (Serves("POST", "/users") /\ LacksUserField(req'.body))
        => /\ users' = users
           /\ "user" \notin DOMAIN g' => resp'.status \in {401, 500}
           /\ ("user" \in DOMAIN g' /\ ~ db) => resp'.status = 500
           /\ ("user" \in DOMAIN g' /\ db)
                => IF inp'.json.kind = "raise" THEN resp'.status = 500
                   ELSE resp'.status = 400

C7_RoundTrip ==
    /\ (Served("GET", "/transactions") /\ resp.status = 200)
        => \A k \in 1..Len(accepted) :
              accepted[k].caller = g.user.uid =>
                \E i \in 1..Len(resp.json) :
                    /\ resp.json[i].merchantName = accepted[k].data.merchantName
                    /\ resp.json[i].amount = accepted[k].data.amount
                    /\ resp.json[i].category = accepted[k].data.category
                    /\ resp.json[i].date = accepted[k].data.date
    /\ (Served("GET", "/users") /\ resp.status = 200)
        => \A k \in 1..Len(acceptedUsers) :
                \E i \in 1..Len(resp.json) :
                    /\ resp.json[i].email = acceptedUsers[k].email
                    /\ resp.json[i].displayName = acceptedUsers[k].displayName

\* The text a list endpoint returns for a submitted date.
ReturnedDate(text) ==
    IF text = "2026-11-05" THEN "Thu, 05 Nov 2026 00:00:00 GMT" ELSE "never accepted"

\* C7 amended: a list endpoint returns email and displayName, and
\* merchantName, amount and category, of every accepted record unchanged;
\* the date comes back as the RFC 822 text of the parsed date at midnight
\* GMT, not as the string submitted; the server adds id and createdAt, and
\* userId to a transaction.
C7_RoundTripButDate ==
    /\ (Served("GET", "/transactions") /\ resp.status = 200)
        => \A k \in 1..Len(accepted) :
              accepted[k].caller = g.user.uid =>
                \E i \in 1..Len(resp.json) :
                    /\ resp.json[i].merchantName = accepted[k].data.merchantName
                    /\ resp.json[i].amount = accepted[k].data.amount
                    /\ resp.json[i].category = accepted[k].data.category
                    /\ resp.json[i].date = ReturnedDate(accepted[k].data.date)
                    /\ DOMAIN resp.json[i] =
                         {"amount", "category", "date", "merchantName",
                          "id", "createdAt", "userId"}
    /\ (Served("GET", "/users") /\ resp.status = 200)
        => \A k \in 1..Len(acceptedUsers) :
                \E i \in 1..Len(resp.json) :
                    /\ resp.json[i].email = acceptedUsers[k].email
                    /\ resp.json[i].displayName = acceptedUsers[k].displayName
                    /\ DOMAIN resp.json[i] = {"email", "displayName", "id", "createdAt"}

\* A caller was listed a transaction whose date is no longer the string
\* submitted.
C7_Witness ==
    /\ Served("GET", "/transactions")
    /\ resp.status = 200
    /\ \E i \in 1..Len(resp.json), k \in 1..Len(accepted) :
          /\ resp.json[i].id = transactions[k].id
          /\ accepted[k].data.date = "2026-11-05"
          /\ resp.json[i].date = "Thu, 05 Nov 2026 00:00:00 GMT"

\* ------------------------------------------------------------------------ C5
\* A JSON number: what the claim calls a numeric amount.
IsJsonNumber(amount) == amount.type \in {"int", "float"}

\* The documents of the caller being served that are dated on or after the
\* start of the period asked for and whose amount is a number.
NumericInPeriod ==
    { k \in 1..Len(transactions) :
        /\ transactions[k].userId = g.user.uid
        /\ DateGE(transactions[k].date, StartDate(PeriodOf(inp.period), inp.now))
        /\ IsJsonNumber(transactions[k].amount) }

\* C5: a 200 of GET /summary/spending holds in topCategories exactly the
\* categories with at least one numeric-amount record of the caller in the
\* period, each with the sum of the numeric amounts of that category, in
\* descending order of total_amount, and totalSpent is the sum of the
\* total_amount entries; a record whose amount is not a number adds to no
\* total.
C5_SummaryOfNumericAmounts ==
    (Served("GET", "/summary/spending") /\ resp.status = 200)
        => LET top == resp.json.topCategories
               amt == [k \in 1..Len(transactions) |-> transactions[k].amount.val]
           IN  /\ { top[i].category : i \in 1..Len(top) }
                    = { transactions[k].category : k \in NumericInPeriod }
               /\ \A i, j \in 1..Len(top) :
                    i # j => top[i].category # top[j].category
               /\ \A i \in 1..Len(top) :
                    top[i].total_amount =
                        SumOver({ k \in NumericInPeriod :
                                    transactions[k].category = top[i].category }, amt)
               /\ \A i, j \in 1..Len(top) :
                    i < j => top[i].total_amount >= top[j].total_amount
               /\ resp.json.totalSpent =
                    SumOver(1..Len(top), [i \in 1..Len(top) |-> top[i].total_amount])

\* ----------------------------------------------------------------------- C10
\* The first of amount, category, date, merchantName that the body lacks; a
\* request without a body lacks them all.
ExpectedMissing(b) ==
    IF b.kind # "dict" \/ "amount" \notin DOMAIN b.value THEN "amount"
    ELSE IF "category" \notin DOMAIN b.value THEN "category"
    ELSE IF "date" \notin DOMAIN b.value THEN "date"
    ELSE "merchantName"

\* C10: an authenticated POST /transactions that does not supply all four
\* fields, a request without a JSON body included, is answered 400 naming
\* the first missing field in the order amount, category, date,
\* merchantName, also when its date does not parse.  (Stated for a process
\* whose store client is initialised.)
C10_MissingFieldIs400 ==
    (Served("POST", "/transactions") /\ Passed /\ db /\ LacksTxnField(req.body))
        => /\ resp.status = 400
           /\ resp.json.error = "Missing required field: " \o ExpectedMissing(req.body)

====
